---- MODULE Spec2Model ----
(***************************************************************************)
(* Model of pluralsh/reporting: the usage reporter (reporting.py) and the  *)
(* user exporter (export_users.py).                                        *)
(*                                                                         *)
(* Python strings are sequences of one-character strings, so that split,   *)
(* startswith, endswith, slicing and lower() are computed on characters.   *)
(* Python values are tagged records: Str(s), None, NaN (a pandas null),    *)
(* Raise(e) for a raised exception.                                        *)
(***************************************************************************)
EXTENDS Integers, Sequences, FiniteSets, TLC

VARIABLES
    service_name,   \* get_environment: the argument
    env_ret,        \* get_environment: what the call produced
    repo_url,       \* get_github_org: the argument
    org_ret,        \* get_github_org: what the call produced
    services_df,    \* the service table: a sequence of rows
    shuffled,       \* the same rows in another order
    analysis,       \* analyze_services(services_df)
    analysis_shuffled,  \* analyze_services(shuffled)
    monthly,        \* analyze_monthly_creations(services_df, analysis.workspaces)
    pc,             \* reporter main: the statement about to run
    environ,        \* reporter main: the environment variables
    disk,           \* reporter main: the CSV files that exist, by path
    users_df,       \* reporter main: the user table read
    unique_developers,  \* reporter main: count_unique_developers(users_df)
    reads,          \* reporter main: the paths read so far
    caught,         \* reporter main: the exception caught at the top level
    exit_status,    \* reporter main: the status of sys.exit, None while none
    archive,        \* reporter main: the report archive written, None while none
    users,          \* exporter: the user nodes fetched
    export_pc,      \* exporter: where export_to_csv is
    csv_rows,       \* exporter: the rows written to users.csv
    export_status   \* exporter: the status of sys.exit, None while none

vars == <<service_name, env_ret, repo_url, org_ret,
          services_df, shuffled, analysis, analysis_shuffled, monthly,
          pc, environ, disk, users_df, unique_developers, reads, caught,
          exit_status, archive, users, export_pc, csv_rows, export_status>>

mainVars == <<pc, environ, disk, users_df, unique_developers, reads, caught,
              exit_status, archive>>
exportVars == <<users, export_pc, csv_rows, export_status>>

fnVars == <<service_name, env_ret, repo_url, org_ret>>
dfVars == <<services_df, shuffled, analysis, analysis_shuffled, monthly>>

----------------------------------------------------------------------------
(* Python values *)

None == [tag |-> "None"]
NaN == [tag |-> "NaN"]
Str(s) == [tag |-> "str", val |-> s]
Raise(e) == [tag |-> "raise", exc |-> e]
IntVal(n) == [tag |-> "int", val |-> n]

IsStr(v) == v.tag = "str"
\* pd.isna: true of a missing cell (NaN) and of None
isna(v) == v.tag \in {"NaN", "None"}

----------------------------------------------------------------------------
(* str methods *)

Lower(c) ==
    CASE c = "A" -> "a" [] c = "D" -> "d" [] c = "P" -> "p" [] c = "Q" -> "q"
      [] c = "R" -> "r" [] c = "E" -> "e" [] c = "V" -> "v" [] c = "T" -> "t"
      [] c = "S" -> "s" [] c = "X" -> "x" [] OTHER -> c

lower(s) == [i \in 1..Len(s) |-> Lower(s[i])]

startswith(s, p) == Len(s) >= Len(p) /\ SubSeq(s, 1, Len(p)) = p

endswith(s, p) == Len(s) >= Len(p) /\ SubSeq(s, Len(s) - Len(p) + 1, Len(s)) = p

\* s.split(sep) for a one-character separator: always at least one part
RECURSIVE split(_, _)
split(s, sep) ==
    LET hits == {i \in 1..Len(s) : s[i] = sep}
    IN  IF hits = {} THEN <<s>>
        ELSE LET i == CHOOSE k \in hits : \A m \in hits : k <= m
             IN  <<SubSeq(s, 1, i - 1)>> \o split(SubSeq(s, i + 1, Len(s)), sep)

----------------------------------------------------------------------------
(* get_environment *)

EnvLabels ==
    << <<"d","e","v">>, <<"q","a">>, <<"p","r","o","d">>, <<"p","r","d">>,
       <<"s","b","x">>, <<"s","t","a","g","i","n","g">>, <<"t","e","s","t">> >>

EnvLabelSet == {EnvLabels[i] : i \in 1..Len(EnvLabels)}

\* a faulty variant: the matching token is returned as written, not lower-cased
RECURSIVE EnvScanNoLower(_, _)
EnvScanNoLower(parts, k) ==
    IF k > Len(parts) THEN None
    ELSE IF lower(parts[k]) \in EnvLabelSet THEN Str(parts[k])
    ELSE EnvScanNoLower(parts, k + 1)

\* the for loop of get_environment over parts[k..]
RECURSIVE EnvScan(_, _)
EnvScan(parts, k) ==
    IF k > Len(parts) THEN None
    ELSE IF lower(parts[k]) \in EnvLabelSet THEN Str(lower(parts[k]))
    ELSE EnvScan(parts, k + 1)

\* a value without a split method (NaN is a float, None is NoneType) raises
get_environment(v) ==
    IF ~IsStr(v) THEN Raise("AttributeError")
    ELSE EnvScan(split(v.val, "-"), 1)

----------------------------------------------------------------------------
(* get_github_org *)

GitAt == <<"g","i","t","@">>
Http == <<"h","t","t","p">>

\* a faulty variant: split(':', 1), the remainder after the first colon kept whole
get_github_org_split_once(v) ==
    IF isna(v) THEN None
    ELSE IF startswith(v.val, GitAt) THEN
        LET hits == {i \in 1..Len(v.val) : v.val[i] = ":"}
        IN  IF hits = {} THEN None
            ELSE LET i == CHOOSE k \in hits : \A m \in hits : k <= m
                 IN  Str(split(SubSeq(v.val, i + 1, Len(v.val)), "/")[1])
    ELSE IF startswith(v.val, Http) THEN
        LET parts == split(v.val, "/")
        IN  IF Len(parts) > 3 THEN Str(parts[4]) ELSE None
    ELSE None

\* Python indexes from 0: parts[1] is the second part, parts[3] the fourth
get_github_org(v) ==
    IF isna(v) THEN None
    ELSE IF startswith(v.val, GitAt) THEN
        LET parts == split(v.val, ":")
        IN  IF Len(parts) > 1 THEN Str(split(parts[2], "/")[1]) ELSE None
    ELSE IF startswith(v.val, Http) THEN
        LET parts == split(v.val, "/")
        IN  IF Len(parts) > 3 THEN Str(parts[4]) ELSE None
    ELSE None

----------------------------------------------------------------------------
(* sorted(): Python compares strings by code point, a proper prefix first *)

\* the characters the model's strings use, in code-point order
Ascii ==
    <<"-", "/", ":", "@", "D", "P", "Q", "R", "a", "b", "c", "d", "e", "g", "h",
      "i", "m", "n", "o", "p", "q", "r", "s", "t", "u", "v", "x">>

CharCode(c) == CHOOSE i \in 1..Len(Ascii) : Ascii[i] = c

RECURSIVE StrLess(_, _)
StrLess(a, b) ==
    IF Len(b) = 0 THEN FALSE
    ELSE IF Len(a) = 0 THEN TRUE
    ELSE IF a[1] # b[1] THEN CharCode(a[1]) < CharCode(b[1])
    ELSE StrLess(Tail(a), Tail(b))

RECURSIVE sorted(_)
sorted(S) ==
    IF S = {} THEN << >>
    ELSE LET m == CHOOSE x \in S : \A y \in S \ {x} : StrLess(x, y)
         IN  <<m>> \o sorted(S \ {m})

Range(f) == {f[i] : i \in DOMAIN f}

----------------------------------------------------------------------------
(* analyze_services *)

RuntimeSuffix == <<"-","r","u","n","t","i","m","e">>
RuntimeSuffixLen == 8
Hyphen == <<"-">>

EmptyDict == [k \in {} |-> {}]

\* defaultdict(set): d[key].add(x)
DictAdd(d, key, x) ==
    [k \in DOMAIN d \cup {key} |->
        IF k = key THEN (IF key \in DOMAIN d THEN d[key] ELSE {}) \cup {x} ELSE d[k]]

\* the truth value of a returned label: None and '' are false
truthy(v) == IsStr(v) /\ v.val # << >>

\* a faulty variant: the slice drops 7 characters, leaving the hyphen on the prefix
RECURSIVE DiscoverShortSlice(_, _, _)
DiscoverShortSlice(df, k, order) ==
    IF k > Len(df) THEN order
    ELSE LET service == df[k].service
         IN  IF isna(service) THEN DiscoverShortSlice(df, k + 1, order)
             ELSE IF endswith(service.val, RuntimeSuffix) THEN
                 LET workspace_prefix ==
                         SubSeq(service.val, 1, Len(service.val) - RuntimeSuffixLen + 1)
                 IN  DiscoverShortSlice(df, k + 1,
                              IF workspace_prefix \in Range(order) THEN order
                              ELSE Append(order, workspace_prefix))
             ELSE DiscoverShortSlice(df, k + 1, order)

\* the first pass over rows k..: the dict keeps a key where it was first inserted
RECURSIVE Discover(_, _, _)
Discover(df, k, order) ==
    IF k > Len(df) THEN order
    ELSE LET service == df[k].service
         IN  IF isna(service) THEN Discover(df, k + 1, order)
             ELSE IF endswith(service.val, RuntimeSuffix) THEN
                 LET workspace_prefix ==
                         SubSeq(service.val, 1, Len(service.val) - RuntimeSuffixLen)
                 IN  Discover(df, k + 1,
                              IF workspace_prefix \in Range(order) THEN order
                              ELSE Append(order, workspace_prefix))
             ELSE Discover(df, k + 1, order)

NewWorkspace(p) ==
    [prefix |-> p, workloads |-> {}, env_workloads |-> EmptyDict,
     org_workloads |-> EmptyDict]

AddTo(data, p, row) ==
    LET service == row.service.val
        env == get_environment(row.service)
        org == get_github_org(row.repository)
        d1 == [data EXCEPT ![p].workloads = @ \cup {service}]
        d2 == IF truthy(env)
              THEN [d1 EXCEPT ![p].env_workloads = DictAdd(@, env.val, service)]
              ELSE d1
    IN  IF truthy(org)
        THEN [d2 EXCEPT ![p].org_workloads = DictAdd(@, org.val, service)]
        ELSE d2

\* a faulty variant: only the workspace's own runtime service is kept out
AddWorkloadOwnRuntime(data, p, row) ==
    IF row.service.val = p \o RuntimeSuffix THEN data ELSE AddTo(data, p, row)

\* the body of `if service.startswith(workspace_prefix + '-')` before the break
AddWorkload(data, p, row) ==
    IF endswith(row.service.val, RuntimeSuffix) THEN data ELSE AddTo(data, p, row)

\* a faulty variant: no break, every matching prefix takes the service
RECURSIVE AssignRowNoBreak(_, _, _, _)
AssignRowNoBreak(data, order, row, k) ==
    IF k > Len(order) THEN data
    ELSE IF startswith(row.service.val, order[k] \o Hyphen)
         THEN AssignRowNoBreak(AddWorkload(data, order[k], row), order, row, k + 1)
         ELSE AssignRowNoBreak(data, order, row, k + 1)

\* `for workspace_prefix in workspaces:` from the k-th key on, for one row
RECURSIVE AssignRow(_, _, _, _)
AssignRow(data, order, row, k) ==
    IF k > Len(order) THEN data
    ELSE IF startswith(row.service.val, order[k] \o Hyphen)
         THEN AddWorkload(data, order[k], row)
         ELSE AssignRow(data, order, row, k + 1)

\* the second pass over rows k..
RECURSIVE Assign(_, _, _, _)
Assign(df, k, order, data) ==
    IF k > Len(df) THEN data
    ELSE IF isna(df[k].service) THEN Assign(df, k + 1, order, data)
    ELSE Assign(df, k + 1, order, AssignRow(data, order, df[k], 1))

Counts(d) == [k \in DOMAIN d |-> Cardinality(d[k])]

WorkspaceStats(d) ==
    [total_workloads |-> Cardinality(d.workloads),
     workload_names |-> sorted(d.workloads),
     env_distribution |-> Counts(d.env_workloads),
     environments |-> sorted(DOMAIN d.env_workloads),
     org_distribution |-> Counts(d.org_workloads),
     organizations |-> sorted(DOMAIN d.org_workloads)]

RECURSIVE TotalWorkloads(_, _, _)
TotalWorkloads(order, data, k) ==
    IF k > Len(order) THEN 0
    ELSE Cardinality(data[order[k]].workloads) + TotalWorkloads(order, data, k + 1)

Analysis(order, data) ==
    [tag |-> "analysis",
     unique_workspaces |-> Len(order),
     total_workloads |-> TotalWorkloads(order, data, 1),
     workspace_stats |-> [p \in Range(order) |-> WorkspaceStats(data[p])],
     workspaces |-> [order |-> order, data |-> data]]

\* a faulty variant: one pass, a row is assigned among the workspaces seen so far
RECURSIVE OnePass(_, _, _, _)
OnePass(df, k, order, data) ==
    IF k > Len(df) THEN Analysis(order, data)
    ELSE IF isna(df[k].service) THEN OnePass(df, k + 1, order, data)
    ELSE LET found == Discover(<<df[k]>>, 1, order)
             known == [p \in Range(found) |->
                          IF p \in DOMAIN data THEN data[p] ELSE NewWorkspace(p)]
         IN  OnePass(df, k + 1, found, AssignRow(known, found, df[k], 1))

analyze_services_one_pass(df) == OnePass(df, 1, << >>, EmptyDict)

\* a cell that is neither null nor a string (a numeric column) has no endswith
analyze_services(df) ==
    IF \E i \in DOMAIN df : ~isna(df[i].service) /\ ~IsStr(df[i].service)
    THEN Raise("AttributeError")
    ELSE LET order == Discover(df, 1, << >>)
             empty == [p \in Range(order) |-> NewWorkspace(p)]
             data == Assign(df, 1, order, empty)
         IN  Analysis(order, data)

----------------------------------------------------------------------------
(* analyze_monthly_creations *)

all_months ==
    <<"January", "February", "March", "April", "May", "June",
      "July", "August", "September", "October", "November", "December">>

Date(y, m) == [tag |-> "date", year |-> y, month |-> m]
NaT == [tag |-> "NaT"]

\* a faulty variant: errors='coerce', a cell that does not parse becomes NaT
to_datetime_coerce(v) == IF v.tag = "date" THEN v ELSE NaT

\* pd.to_datetime of one cell
to_datetime(v) ==
    IF v.tag = "date" THEN v
    ELSE IF isna(v) THEN NaT
    ELSE Raise("DateParseError")

\* strftime('%B')
MonthName(d) == all_months[d.month]

\* a faulty variant: the runtime services are not masked out
workload_mask_with_runtime(row, workspaces) ==
    IF ~isna(row.service)
    THEN \E w \in Range(workspaces.order) : startswith(row.service.val, w \o Hyphen)
    ELSE FALSE

workload_mask(row, workspaces) ==
    IF ~isna(row.service)
    THEN /\ \E w \in Range(workspaces.order) : startswith(row.service.val, w \o Hyphen)
         /\ ~endswith(row.service.val, RuntimeSuffix)
    ELSE FALSE

\* groupby(month name)['service'].count(): a NaT key forms no group
GroupCount(stamps) ==
    LET keys == {MonthName(stamps[i]) : i \in {j \in DOMAIN stamps : stamps[j] # NaT}}
    IN  [m \in keys |->
            Cardinality({i \in DOMAIN stamps : stamps[i] # NaT /\ MonthName(stamps[i]) = m})]

\* a faulty variant: the months without a group are not filled in
reindex_no_fill(counts, index, fill) ==
    [m \in Range(index) \cap DOMAIN counts |-> counts[m]]

reindex(counts, index, fill) ==
    [m \in Range(index) |-> IF m \in DOMAIN counts THEN counts[m] ELSE fill]

analyze_monthly_creations(df, workspaces) ==
    LET workload_df == SelectSeq(df, LAMBDA row : workload_mask(row, workspaces))
        stamps == [i \in DOMAIN workload_df |-> to_datetime(workload_df[i].created_at)]
    IN  IF \E i \in DOMAIN stamps : stamps[i].tag = "raise"
        THEN Raise("DateParseError")
        ELSE [tag |-> "dict", val |-> reindex(GroupCount(stamps), all_months, 0)]

----------------------------------------------------------------------------
(* Calls of get_environment on names built from pieces *)

MaxNameLen == 8

EnvPieces ==
    { <<"-">>, <<"x">>, <<"q","a">>, <<"Q","a">>, <<"P","R","D">>, <<"d","e","v">> }

FnIdle ==
    /\ service_name = Str(<< >>) /\ env_ret = None
    /\ repo_url = Str(<< >>) /\ org_ret = None

DfIdle ==
    /\ services_df = << >> /\ shuffled = << >>
    /\ analysis = analyze_services(<< >>)
    /\ analysis_shuffled = analyze_services(<< >>)
    /\ monthly = analyze_monthly_creations(<< >>, analyze_services(<< >>).workspaces)

MainIdle ==
    /\ pc = "idle"
    /\ environ = [SERVICES_CSV_PATH |-> "", USERS_CSV_PATH |-> ""]
    /\ disk = EmptyDict
    /\ users_df = None /\ unique_developers = None
    /\ reads = {} /\ caught = None /\ exit_status = None /\ archive = None

ExportIdle ==
    /\ users = << >> /\ export_pc = "idle" /\ csv_rows = << >> /\ export_status = None

Idle == FnIdle /\ DfIdle /\ MainIdle /\ ExportIdle

EnvCall(v) ==
    /\ service_name' = v
    /\ env_ret' = get_environment(v)
    /\ UNCHANGED <<repo_url, org_ret, dfVars, mainVars, exportVars>>

EnvExtend ==
    /\ IsStr(service_name)
    /\ \E p \in EnvPieces :
          /\ Len(service_name.val) + Len(p) <= MaxNameLen
          /\ EnvCall(Str(service_name.val \o p))

EnvNull == \E v \in {NaN, None} : EnvCall(v)

InitEnv == Idle

NextEnv == EnvExtend \/ EnvNull

SpecEnv == InitEnv /\ [][NextEnv]_vars

\* the maximal hyphen-free stretches <<a, b>> of s that are not empty
Tokens(s) ==
    {t \in (1..Len(s)) \X (1..Len(s)) :
        /\ t[1] <= t[2]
        /\ \A i \in t[1]..t[2] : s[i] # "-"
        /\ (t[1] = 1 \/ s[t[1] - 1] = "-")
        /\ (t[2] = Len(s) \/ s[t[2] + 1] = "-")}

EnvTokens(s) == {t \in Tokens(s) : lower(SubSeq(s, t[1], t[2])) \in EnvLabelSet}

FirstEnvToken(s) == CHOOSE t \in EnvTokens(s) : \A u \in EnvTokens(s) : t[1] <= u[1]

FirstEnvLabel(s) ==
    IF EnvTokens(s) = {} THEN None
    ELSE Str(lower(SubSeq(s, FirstEnvToken(s)[1], FirstEnvToken(s)[2])))

\* C8 as stated: get_environment returns the lower-cased first hyphen-delimited
\* token that is an environment label, and None, without an error, when no token
\* matches or the argument is null.
C8_NullGivesAbsent ==
    env_ret = IF IsStr(service_name) THEN FirstEnvLabel(service_name.val) ELSE None

\* C8 amended: for a string argument get_environment returns the lower-cased first
\* hyphen-delimited token that is an environment label, None when no token
\* matches; for a null argument it raises AttributeError.
C8_FirstLabelOrRaise ==
    env_ret = IF IsStr(service_name) THEN FirstEnvLabel(service_name.val)
              ELSE Raise("AttributeError")

\* a name with two label tokens, the first written with a capital, was classified
C8_Witness ==
    /\ IsStr(service_name)
    /\ Cardinality(EnvTokens(service_name.val)) >= 2
    /\ LET t == FirstEnvToken(service_name.val)
       IN  /\ SubSeq(service_name.val, t[1], t[2]) # lower(SubSeq(service_name.val, t[1], t[2]))
           /\ env_ret = Str(lower(SubSeq(service_name.val, t[1], t[2])))

----------------------------------------------------------------------------
(* Calls of get_github_org on URLs built from a scheme and a tail *)

MaxUrlTail == 5

UrlHeads == {GitAt, Http, <<"g","i","t">>}

UrlTailChars == {":", "/", "o", "p"}

UrlTailLen(s) ==
    IF startswith(s, GitAt) \/ startswith(s, Http) THEN Len(s) - 4
    ELSE IF startswith(s, <<"g","i","t">>) THEN Len(s) - 3
    ELSE Len(s)

OrgCall(v) ==
    /\ repo_url' = v
    /\ org_ret' = get_github_org(v)
    /\ UNCHANGED <<service_name, env_ret, dfVars, mainVars, exportVars>>

OrgHead ==
    /\ repo_url = Str(<< >>)
    /\ \E h \in UrlHeads : OrgCall(Str(h))

OrgExtend ==
    /\ IsStr(repo_url)
    /\ UrlTailLen(repo_url.val) < MaxUrlTail
    /\ \E c \in UrlTailChars : OrgCall(Str(Append(repo_url.val, c)))

OrgNull == \E v \in {NaN, None} : OrgCall(v)

InitOrg == Idle

NextOrg == OrgHead \/ OrgExtend \/ OrgNull

SpecOrg == InitOrg /\ [][NextOrg]_vars

Has(s, c) == \E i \in 1..Len(s) : s[i] = c

FirstIdx(s, c) == CHOOSE i \in 1..Len(s) : s[i] = c /\ \A k \in 1..(i - 1) : s[k] # c

\* s up to its first c (all of s when it has none), and s after its first c
Before(s, c) == IF Has(s, c) THEN SubSeq(s, 1, FirstIdx(s, c) - 1) ELSE s
After(s, c) == SubSeq(s, FirstIdx(s, c) + 1, Len(s))

SlashCount(s) == Cardinality({i \in 1..Len(s) : s[i] = "/"})

\* the text between the third slash and the next one
HttpSegment3(s) == Before(After(After(After(s, "/"), "/"), "/"), "/")

OrgOther(v, ssh) ==
    IF isna(v) THEN None
    ELSE IF startswith(v.val, GitAt) THEN
        IF Has(v.val, ":") THEN Str(ssh) ELSE None
    ELSE IF startswith(v.val, Http) THEN
        IF SlashCount(v.val) >= 3 THEN Str(HttpSegment3(v.val)) ELSE None
    ELSE None

\* C7 as stated: None for a null URL; for a git@ URL split once on its first
\* colon, the remainder up to its first slash (None without a colon); for an http
\* URL the slash-delimited segment at index 3 when there are more than 3; None
\* otherwise.
C7_SplitOnce ==
    org_ret = OrgOther(repo_url, Before(After(repo_url.val, ":"), "/"))

\* C7 amended: as stated, except that a git@ URL is split on every colon: the
\* result is the text between its first colon and its second colon (or its
\* end), up to the first slash of that text.
C7_SplitAll ==
    org_ret = OrgOther(repo_url, Before(Before(After(repo_url.val, ":"), ":"), "/"))

\* a git@ URL with two colons before any slash was given an organization
C7_Witness ==
    /\ IsStr(repo_url)
    /\ startswith(repo_url.val, GitAt)
    /\ Has(repo_url.val, ":")
    /\ Has(Before(After(repo_url.val, ":"), "/"), ":")
    /\ IsStr(org_ret) /\ org_ret.val # << >>

\* an http URL with more than three segments was given its fourth segment
C7_HttpReached ==
    /\ IsStr(repo_url) /\ startswith(repo_url.val, Http)
    /\ org_ret = Str(<<"o">>)

----------------------------------------------------------------------------
(* Service tables *)

MaxRows == 3

Row(n, r, c) == [service |-> n, repository |-> r, created_at |-> c]

a_runtime == Str(<<"a">> \o RuntimeSuffix)
a_b_runtime == Str(<<"a","-","b">> \o RuntimeSuffix)
a_b_qa == Str(<<"a","-","b","-","q","a">>)
a_Dev == Str(<<"a","-","D","e","v">>)
c_qa == Str(<<"c","-","q","a">>)
a_runtimes == Str(<<"a">> \o RuntimeSuffix \o <<"s">>)

SshRepo == Str(<<"g","i","t","@","h",":","o","/","r">>)
HttpRepo == Str(<<"h","t","t","p",":","/","/","h","/","p","/","r">>)

Garbage == Str(<<"x">>)

ClassifyRows ==
    {Row(n, r, Date(2024, 3)) :
        n \in {NaN, a_runtime, a_b_runtime, a_b_qa, a_Dev, c_qa, a_runtimes},
        r \in {NaN, SshRepo, HttpRepo}}

PermuteRows ==
    {Row(n, r, Date(2024, 3)) :
        n \in {NaN, a_runtime, a_b_runtime, a_b_qa}, r \in {SshRepo, HttpRepo}}

MonthlyRows ==
    {Row(n, NaN, c) :
        n \in {NaN, a_runtime, a_b_runtime, a_b_qa},
        c \in {Date(2023, 3), Date(2024, 3), Date(2024, 11), NaN, Garbage}}

InsertAt(seq, k, x) == SubSeq(seq, 1, k - 1) \o <<x>> \o SubSeq(seq, k, Len(seq))

\* the reporter's two analyses of a table (main, lines 198-199)
Analyze(df) ==
    /\ services_df' = df
    /\ analysis' = analyze_services(df)
    /\ monthly' = analyze_monthly_creations(df, analyze_services(df).workspaces)
    /\ UNCHANGED <<fnVars, mainVars, exportVars>>

AddClassifyRow ==
    /\ Len(services_df) < MaxRows
    /\ \E r \in ClassifyRows : Analyze(Append(services_df, r))
    /\ UNCHANGED <<shuffled, analysis_shuffled>>

AddMonthlyRow ==
    /\ Len(services_df) < MaxRows
    /\ \E r \in MonthlyRows : Analyze(Append(services_df, r))
    /\ UNCHANGED <<shuffled, analysis_shuffled>>

\* a row joins the table at its end and the reordered table at any place
AddPermutedRow ==
    /\ Len(services_df) < MaxRows
    /\ \E r \in PermuteRows : \E k \in 1..(Len(shuffled) + 1) :
          /\ Analyze(Append(services_df, r))
          /\ shuffled' = InsertAt(shuffled, k, r)
          /\ analysis_shuffled' = analyze_services(InsertAt(shuffled, k, r))

SpecClassify == Idle /\ [][AddClassifyRow]_vars
SpecMonthly == Idle /\ [][AddMonthlyRow]_vars
SpecPermute == Idle /\ [][AddPermutedRow]_vars

----------------------------------------------------------------------------
(* Properties of analyze_services *)

Order == analysis.workspaces.order
Data == analysis.workspaces.data
Names == {services_df[i].service.val : i \in {j \in DOMAIN services_df : ~isna(services_df[j].service)}}

Matches(name, p) == startswith(name, p \o Hyphen)

\* p is the first discovered prefix that the name matches
FirstMatch(name, p) ==
    \E k \in DOMAIN Order :
        /\ Order[k] = p
        /\ Matches(name, p)
        /\ \A m \in 1..(k - 1) : ~Matches(name, Order[m])

\* C1: every service name is in the workload set of at most one workspace, the
\* first discovered prefix P (in discovery order) with the name starting `P-`.
C1_AtMostOneWorkspace ==
    \A p \in DOMAIN Data : \A name \in Data[p].workloads :
        /\ FirstMatch(name, p)
        /\ \A q \in DOMAIN Data \ {p} : name \notin Data[q].workloads

\* a workload matching two discovered prefixes was assigned
C1_Witness ==
    \E p \in DOMAIN Data : \E name \in Data[p].workloads :
        \E q \in DOMAIN Data \ {p} : Matches(name, q)

OnlyOwnRuntime(p) ==
    {n \in Names : Matches(n, p)} = {p \o RuntimeSuffix}

\* C2 as stated: the workload set of the workspace P is exactly the set of
\* non-null names assigned to P (P the first matching prefix) minus P-runtime; a
\* workspace matched by its own runtime service alone has no workloads.
C2_MinusOwnRuntime ==
    \A p \in DOMAIN Data :
        /\ Data[p].workloads = {n \in Names : FirstMatch(n, p)} \ {p \o RuntimeSuffix}
        /\ OnlyOwnRuntime(p) =>
              /\ Data[p].workloads = {}
              /\ analysis.workspace_stats[p].total_workloads = 0

\* C2 amended: the workload set of the workspace P is exactly the set of
\* non-null names assigned to P (P the first matching prefix) minus every name
\* that ends in -runtime, the runtime services of other workspaces included; a
\* workspace matched by its own runtime service alone has no workloads.
C2_MinusEveryRuntime ==
    \A p \in DOMAIN Data :
        /\ Data[p].workloads =
              {n \in Names : FirstMatch(n, p) /\ ~endswith(n, RuntimeSuffix)}
        /\ OnlyOwnRuntime(p) =>
              /\ Data[p].workloads = {}
              /\ analysis.workspace_stats[p].total_workloads = 0

\* a workspace was assigned another workspace's runtime service and a workload,
\* beside a workspace matched by its own runtime service alone
C2_Witness ==
    /\ \E p \in DOMAIN Data :
          /\ \E n \in Names :
                FirstMatch(n, p) /\ endswith(n, RuntimeSuffix) /\ n # p \o RuntimeSuffix
          /\ Data[p].workloads # {}
    /\ \E q \in DOMAIN Data : OnlyOwnRuntime(q)

\* the P for which the table holds a non-null service named exactly P-runtime
RuntimePrefixes ==
    {p \in UNION {{SubSeq(n, 1, j) : j \in 0..Len(n)} : n \in Names} :
        p \o RuntimeSuffix \in Names}

\* C4: a workspace P is in the result iff the table holds a non-null service
\* named exactly P-runtime; the number of unique workspaces is the number of
\* distinct such P; a-runtime with a-b-runtime gives the workspaces a and a-b.
C4_WorkspaceIffRuntime ==
    /\ DOMAIN analysis.workspace_stats = RuntimePrefixes
    /\ DOMAIN Data = RuntimePrefixes
    /\ analysis.unique_workspaces = Cardinality(RuntimePrefixes)
    /\ ({a_runtime.val, a_b_runtime.val} \subseteq Names =>
            {<<"a">>, <<"a","-","b">>} \subseteq DOMAIN analysis.workspace_stats)

\* a-runtime and a-b-runtime, one of them twice, gave two workspaces
C4_Witness ==
    /\ {a_runtime.val, a_b_runtime.val} \subseteq Names
    /\ Len(services_df) = 3
    /\ \A i \in DOMAIN services_df :
          services_df[i].service \in {a_runtime, a_b_runtime}
    /\ analysis.unique_workspaces = 2

----------------------------------------------------------------------------
(* Properties of analyze_services on a reordered table *)

PerWorkspace(a) ==
    [p \in DOMAIN a.workspace_stats |->
        [workload_names |-> a.workspace_stats[p].workload_names,
         env_distribution |-> a.workspace_stats[p].env_distribution,
         org_distribution |-> a.workspace_stats[p].org_distribution]]

\* some workload of the table matches two discovered prefixes
Ambiguous ==
    \E n \in Names :
        /\ ~endswith(n, RuntimeSuffix)
        /\ \E p, q \in Range(Order) : p # q /\ Matches(n, p) /\ Matches(n, q)

\* C3 as stated: on any permutation of the rows analyze_services returns the
\* same workspace count, the same total workload count and, for every workspace,
\* the same workload names, environment counts and organization counts.
C3_OrderIndependent ==
    /\ analysis_shuffled.unique_workspaces = analysis.unique_workspaces
    /\ analysis_shuffled.total_workloads = analysis.total_workloads
    /\ PerWorkspace(analysis_shuffled) = PerWorkspace(analysis)

\* C3 amended: on any permutation of the rows analyze_services returns the same
\* workspace count and the same total workload count; it returns for every
\* workspace the same workload names, environment counts and organization counts
\* when no workload name starts with `P-` for two distinct discovered prefixes P.
C3_OrderIndependentUnlessAmbiguous ==
    /\ analysis_shuffled.unique_workspaces = analysis.unique_workspaces
    /\ analysis_shuffled.total_workloads = analysis.total_workloads
    /\ DOMAIN analysis_shuffled.workspace_stats = DOMAIN analysis.workspace_stats
    /\ ~Ambiguous => PerWorkspace(analysis_shuffled) = PerWorkspace(analysis)

\* a workload listed before its runtime service in one order and after it in the
\* other was counted, with an organization, in both
C3_Witness ==
    /\ ~Ambiguous
    /\ services_df # shuffled
    /\ services_df[1].service = a_b_qa
    /\ shuffled[1].service = a_b_runtime
    /\ analysis.total_workloads = 1
    /\ \E p \in DOMAIN analysis_shuffled.workspace_stats :
          analysis_shuffled.workspace_stats[p].org_distribution # EmptyDict

----------------------------------------------------------------------------
(* Properties of analyze_monthly_creations *)

RECURSIVE SumMonths(_, _)
SumMonths(d, k) == IF k > Len(all_months) THEN 0 ELSE d[all_months[k]] + SumMonths(d, k + 1)

AllParseable == \A i \in DOMAIN services_df : services_df[i].created_at.tag = "date"

Workloads == UNION {Data[p].workloads : p \in DOMAIN Data}

\* the rows whose service analyze_services classified as a workload
ClassifiedRows ==
    {i \in DOMAIN services_df :
        ~isna(services_df[i].service) /\ services_df[i].service.val \in Workloads}

NoRepeatedWorkload ==
    \A i, j \in ClassifiedRows : services_df[i].service = services_df[j].service => i = j

\* C5 as stated: when every creation timestamp is a parseable date, the twelve
\* monthly counts sum to the total workload count that analyze_services returns,
\* rows repeating a service name included.
C5_SumIsTotalWorkloads ==
    AllParseable =>
        /\ monthly.tag = "dict"
        /\ SumMonths(monthly.val, 1) = analysis.total_workloads

\* C5 amended: when every creation timestamp is a parseable date, the rows kept
\* by analyze_monthly_creations are exactly the rows whose name analyze_services
\* classified as a workload: the twelve monthly counts sum to the number of such
\* rows, which is the total workload count when no workload name repeats.
C5_SumIsWorkloadRows ==
    AllParseable =>
        /\ monthly.tag = "dict"
        /\ SumMonths(monthly.val, 1) = Cardinality(ClassifiedRows)
        /\ NoRepeatedWorkload => SumMonths(monthly.val, 1) = analysis.total_workloads

\* a table of parseable dates with two workspaces and one workload was counted
C5_Witness ==
    /\ AllParseable
    /\ analysis.unique_workspaces = 2
    /\ analysis.total_workloads = 1
    /\ NoRepeatedWorkload
    /\ monthly.tag = "dict" /\ SumMonths(monthly.val, 1) = 1

\* a workload row: the name starts with some `prefix-` and does not end in -runtime
IsWorkloadRow(i) ==
    /\ ~isna(services_df[i].service)
    /\ \E p \in Range(Order) : Matches(services_df[i].service.val, p)
    /\ ~endswith(services_df[i].service.val, RuntimeSuffix)

\* C6: analyze_monthly_creations returns a mapping whose keys are exactly the
\* twelve month names; the value of month M is the number of workload rows
\* created in month M of any year, 0 when there is none. (It returns no mapping
\* exactly when a workload row's timestamp cannot be parsed.)
C6_TwelveMonths ==
    /\ monthly.tag = "raise" <=>
          \E i \in DOMAIN services_df :
              IsWorkloadRow(i) /\ services_df[i].created_at = Garbage
    /\ monthly.tag = "dict" =>
          /\ DOMAIN monthly.val = Range(all_months)
          /\ Cardinality(DOMAIN monthly.val) = Len(all_months)
          /\ \A M \in DOMAIN all_months :
                monthly.val[all_months[M]] =
                    Cardinality({i \in DOMAIN services_df :
                        /\ IsWorkloadRow(i)
                        /\ services_df[i].created_at.tag = "date"
                        /\ services_df[i].created_at.month = M})

\* two workloads created in March of different years: March is 2, the rest 0
C6_Witness ==
    /\ monthly.tag = "dict"
    /\ \E i, j \in DOMAIN services_df :
          /\ IsWorkloadRow(i) /\ IsWorkloadRow(j)
          /\ services_df[i].created_at.tag = "date"
          /\ services_df[j].created_at.tag = "date"
          /\ services_df[i].created_at.month = services_df[j].created_at.month
          /\ services_df[i].created_at.year # services_df[j].created_at.year
    /\ monthly.val["March"] = 2
    /\ \A m \in Range(all_months) \ {"March"} : monthly.val[m] = 0

----------------------------------------------------------------------------
(* The reporter's main *)

UsersPath == "users.csv"
ServicesPath == "services.csv"

\* a cell of a numeric column
IntCell == IntVal(7)

UsersFile(columns, email) == [columns |-> columns, email |-> email]

\* pd.read_csv
read_csv(path) ==
    IF path \in DOMAIN disk THEN [tag |-> "df", val |-> disk[path]]
    ELSE Raise("FileNotFoundError")

count_unique_developers(df) ==
    IF "email" \notin df.columns THEN Raise("KeyError")
    ELSE IntVal(Cardinality({IF isna(df.email[i]) THEN NaN
                          ELSE Str(lower(df.email[i].val)) : i \in DOMAIN df.email}))

get(d, key, default) == IF key \in DOMAIN d THEN d[key] ELSE default

\* the rows of the workspace table are kept by workspace: the order that
\* sort_values gives rows of equal count is the library's
export_results_to_zip(metrics, workspace_stats, monthly_counts) ==
    LET all_orgs == UNION {DOMAIN workspace_stats[w].org_distribution :
                              w \in DOMAIN workspace_stats}
        details ==
            [w \in DOMAIN workspace_stats |->
                [workspace_name |-> w,
                 total_workload_count |-> workspace_stats[w].total_workloads,
                 env_data |-> [e \in EnvLabelSet |->
                                  get(workspace_stats[w].env_distribution, e, 0)],
                 org_data |-> [o \in all_orgs |->
                                  get(workspace_stats[w].org_distribution, o, 0)]]]
    IN  IF DOMAIN workspace_stats = {}
        THEN Raise("KeyError")   \* sort_values on a frame without columns
        ELSE [tag |-> "zip", metrics_summary |-> metrics,
              workspace_details |-> details,
              workloads_created_monthly |-> monthly_counts]

MainRows ==
    {Row(n, SshRepo, c) : n \in {NaN, a_runtime, a_b_qa}, c \in {Date(2024, 3), Garbage}}

Tables(rows, n) == UNION {[1..k -> rows] : k \in 0..n}

ServicesFiles == Tables(MainRows, MaxRows) \cup {<<Row(IntCell, NaN, Date(2024, 3))>>}

UsersFiles ==
    {UsersFile({}, << >>), UsersFile({"email"}, << >>),
     UsersFile({"email"}, <<Str(<<"a">>), Str(<<"A">>), NaN>>)}

MkDisk(present, u, sv) == [p \in present |-> IF p = UsersPath THEN u ELSE sv]

InitMain ==
    /\ FnIdle /\ ExportIdle
    /\ shuffled = << >> /\ analysis_shuffled = None
    /\ services_df = None /\ analysis = None /\ monthly = None
    /\ pc = "start"
    /\ environ \in [SERVICES_CSV_PATH : {"", ServicesPath}, USERS_CSV_PATH : {"", UsersPath}]
    /\ \E present \in SUBSET {UsersPath, ServicesPath} :
          \E u \in UsersFiles, sv \in ServicesFiles : disk = MkDisk(present, u, sv)
    /\ users_df = None /\ unique_developers = None
    /\ reads = {} /\ caught = None /\ exit_status = None /\ archive = None

mainRest == <<fnVars, exportVars, shuffled, analysis_shuffled, environ, disk>>

\* `except FileNotFoundError` and `except Exception`: print, then return
Catch(e) ==
    /\ caught' = e
    /\ pc' = "returned"

\* lines 186-191: sys.exit raises SystemExit, which no except clause catches
MainCheckEnv ==
    /\ pc = "start"
    /\ IF environ.SERVICES_CSV_PATH = ""
       THEN pc' = "exited" /\ exit_status' = IntVal(1)
       ELSE pc' = "read_users" /\ UNCHANGED exit_status
    /\ UNCHANGED <<mainRest, services_df, analysis, monthly, users_df,
                   unique_developers, reads, caught, archive>>

MainReadUsers ==
    /\ pc = "read_users"
    /\ LET r == read_csv(environ.USERS_CSV_PATH)
       IN  IF r.tag = "raise"
           THEN Catch(r) /\ UNCHANGED <<users_df, reads>>
           ELSE /\ users_df' = r.val
                /\ reads' = reads \cup {environ.USERS_CSV_PATH}
                /\ pc' = "read_services"
                /\ UNCHANGED caught
    /\ UNCHANGED <<mainRest, services_df, analysis, monthly, unique_developers,
                   exit_status, archive>>

MainReadServices ==
    /\ pc = "read_services"
    /\ LET r == read_csv(environ.SERVICES_CSV_PATH)
       IN  IF r.tag = "raise"
           THEN Catch(r) /\ UNCHANGED <<services_df, reads>>
           ELSE /\ services_df' = r.val
                /\ reads' = reads \cup {environ.SERVICES_CSV_PATH}
                /\ pc' = "count_developers"
                /\ UNCHANGED caught
    /\ UNCHANGED <<mainRest, users_df, analysis, monthly, unique_developers,
                   exit_status, archive>>

MainCountDevelopers ==
    /\ pc = "count_developers"
    /\ LET r == count_unique_developers(users_df)
       IN  IF r.tag = "raise"
           THEN Catch(r) /\ UNCHANGED unique_developers
           ELSE unique_developers' = r /\ pc' = "analyze_services" /\ UNCHANGED caught
    /\ UNCHANGED <<mainRest, services_df, users_df, analysis, monthly, reads,
                   exit_status, archive>>

MainAnalyzeServices ==
    /\ pc = "analyze_services"
    /\ LET r == analyze_services(services_df)
       IN  IF r.tag = "raise"
           THEN Catch(r) /\ UNCHANGED analysis
           ELSE analysis' = r /\ pc' = "analyze_monthly" /\ UNCHANGED caught
    /\ UNCHANGED <<mainRest, services_df, users_df, unique_developers, monthly, reads,
                   exit_status, archive>>

MainAnalyzeMonthly ==
    /\ pc = "analyze_monthly"
    /\ LET r == analyze_monthly_creations(services_df, analysis.workspaces)
       IN  IF r.tag = "raise"
           THEN Catch(r) /\ UNCHANGED monthly
           ELSE monthly' = r /\ pc' = "export" /\ UNCHANGED caught
    /\ UNCHANGED <<mainRest, services_df, users_df, unique_developers, analysis, reads,
                   exit_status, archive>>

MainExport ==
    /\ pc = "export"
    /\ LET metrics == [number_of_unique_developers |-> unique_developers.val,
                       number_of_unique_workspaces |-> analysis.unique_workspaces,
                       total_number_of_workloads |-> analysis.total_workloads]
           r == export_results_to_zip(metrics, analysis.workspace_stats, monthly.val)
       IN  IF r.tag = "raise"
           THEN Catch(r) /\ UNCHANGED archive
           ELSE archive' = r /\ pc' = "print" /\ UNCHANGED caught
    /\ UNCHANGED <<mainRest, services_df, users_df, unique_developers, analysis,
                   monthly, reads, exit_status>>

\* lines 209-242: the printed summary, then main returns
MainPrint ==
    /\ pc = "print"
    /\ pc' = "returned"
    /\ UNCHANGED <<mainRest, services_df, users_df, unique_developers, analysis,
                   monthly, reads, caught, exit_status, archive>>

NextMain ==
    \/ MainCheckEnv
    \/ MainReadUsers
    \/ MainReadServices
    \/ MainCountDevelopers
    \/ MainAnalyzeServices
    \/ MainAnalyzeMonthly
    \/ MainExport
    \/ MainPrint

SpecMain == InitMain /\ [][NextMain]_vars

\* the paths main was given name files that exist
UsersGiven == environ.USERS_CSV_PATH \in DOMAIN disk
ServicesGiven == environ.SERVICES_CSV_PATH \in DOMAIN disk

\* a row of the services file whose name starts with `P-` for a P-runtime of the
\* file, does not end in -runtime, and whose timestamp does not parse
BadStampInWorkload ==
    LET df == disk[ServicesPath]
    IN  \E i, j \in DOMAIN df :
            /\ IsStr(df[i].service) /\ IsStr(df[j].service)
            /\ endswith(df[j].service.val, RuntimeSuffix)
            /\ startswith(df[i].service.val,
                   SubSeq(df[j].service.val, 1, Len(df[j].service.val) - Len(RuntimeSuffix))
                       \o Hyphen)
            /\ ~endswith(df[i].service.val, RuntimeSuffix)
            /\ df[i].created_at = Garbage

\* a step before packaging fails on these inputs
FailsBeforePackaging ==
    \/ ~UsersGiven
    \/ ~ServicesGiven
    \/ "email" \notin disk[UsersPath].columns
    \/ \E i \in DOMAIN disk[ServicesPath] : disk[ServicesPath][i].service = IntCell
    \/ BadStampInWorkload

\* C9: without SERVICES_CSV_PATH main exits with status 1 before any file is
\* read; otherwise a failure of a step before packaging (a CSV file not found, a
\* classification error, an unparseable timestamp in a workload row) is caught at
\* the top level, no archive is written and main returns normally; the archive is
\* written only after user counting, service classification and monthly
\* aggregation have all succeeded.
C9_ErrorsStopBeforeArchive ==
    /\ (environ.SERVICES_CSV_PATH = "" /\ pc # "start") =>
          pc = "exited" /\ exit_status = IntVal(1) /\ reads = {} /\ archive = None
    /\ pc = "exited" => environ.SERVICES_CSV_PATH = ""
    /\ caught # None => pc = "returned" /\ exit_status = None /\ archive = None
    /\ (pc = "returned" /\ FailsBeforePackaging) => caught # None /\ archive = None
    /\ archive # None =>
          /\ unique_developers = count_unique_developers(disk[UsersPath])
          /\ analysis # None /\ analysis.tag = "analysis"
          /\ monthly # None /\ monthly.tag = "dict"
          /\ pc \in {"print", "returned"}

\* a workload row with an unparseable timestamp: both files were read, the error
\* was caught, main returned and wrote no archive
C9_Witness ==
    /\ pc = "returned"
    /\ caught = Raise("DateParseError")
    /\ reads = {UsersPath, ServicesPath}
    /\ analysis # None
    /\ archive = None /\ exit_status = None

\* main returned after writing the archive
C9_ArchiveWritten == pc = "returned" /\ archive # None /\ caught = None

----------------------------------------------------------------------------
(* The exporter: process_user and export_to_csv *)

MaxUsers == 2

Dict(d) == [tag |-> "dict", val |-> d]
List(l) == [tag |-> "list", val |-> l]

\* the truth value of a roles or groups value: None, {} and [] are false
nonempty(v) == v.tag \in {"dict", "list"} /\ DOMAIN v.val # {}

UserFields ==
    <<"id", "name", "email", "roles", "pluralId", "deletedAt", "profile",
      "insertedAt", "updatedAt", "groups">>

\* ";".join(names)
RECURSIVE join(_, _)
join(sep, names) ==
    IF Len(names) = 0 THEN << >>
    ELSE IF Len(names) = 1 THEN names[1]
    ELSE names[1] \o sep \o join(sep, Tail(names))

\* a faulty variant: roles is indexed without the test of its truth value
process_user_no_default(user) ==
    IF \E k \in Range(UserFields) : k \notin DOMAIN user THEN Raise("KeyError")
    ELSE IF user.roles.tag # "dict" THEN Raise("TypeError")
    ELSE IF "admin" \notin DOMAIN user.roles.val THEN Raise("KeyError")
    ELSE [tag |-> "row",
          id |-> user.id, name |-> user.name, email |-> user.email,
          admin |-> user.roles.val.admin,
          plural_id |-> user.pluralId, deleted_at |-> user.deletedAt,
          profile |-> user.profile, inserted_at |-> user.insertedAt,
          updated_at |-> user.updatedAt,
          groups |-> IF nonempty(user.groups)
                     THEN join(<<";">>, [i \in DOMAIN user.groups.val |->
                                            user.groups.val[i].name])
                     ELSE << >>]

\* user[key] raises KeyError for a key the node does not have
process_user(user) ==
    IF \E k \in Range(UserFields) : k \notin DOMAIN user THEN Raise("KeyError")
    ELSE IF nonempty(user.roles) /\ "admin" \notin DOMAIN user.roles.val
    THEN Raise("KeyError")
    ELSE [tag |-> "row",
          id |-> user.id, name |-> user.name, email |-> user.email,
          admin |-> IF nonempty(user.roles) THEN user.roles.val.admin ELSE FALSE,
          plural_id |-> user.pluralId, deleted_at |-> user.deletedAt,
          profile |-> user.profile, inserted_at |-> user.insertedAt,
          updated_at |-> user.updatedAt,
          groups |-> IF nonempty(user.groups)
                     THEN join(<<";">>, [i \in DOMAIN user.groups.val |->
                                            user.groups.val[i].name])
                     ELSE << >>]

\* a node as the API returns it, and the same node without its roles key
Node(roles, groups) ==
    [id |-> "u", name |-> "n", email |-> "e", roles |-> roles, pluralId |-> None,
     deletedAt |-> None, profile |-> None, insertedAt |-> "t", updatedAt |-> "t",
     groups |-> groups]

WithoutRoles(node) == [k \in DOMAIN node \ {"roles"} |-> node[k]]

GroupsValues ==
    {None, List(<< >>), List(<<[name |-> <<"g">>], [name |-> <<"h">>]>>)}

RolesValues == {None, Dict(EmptyDict), Dict([admin |-> TRUE]), Dict([admin |-> FALSE])}

Nodes ==
    {Node(r, g) : r \in RolesValues, g \in GroupsValues}
        \cup {WithoutRoles(Node(None, g)) : g \in GroupsValues}

InitExport ==
    /\ FnIdle /\ DfIdle /\ MainIdle
    /\ users \in Tables(Nodes, MaxUsers)
    /\ export_pc = "open"
    /\ csv_rows = << >>
    /\ export_status = None

exportRest == <<fnVars, dfVars, mainVars, users>>

\* lines 82-84: the file is opened and the header written
ExportOpen ==
    /\ export_pc = "open"
    /\ export_pc' = "rows"
    /\ UNCHANGED <<exportRest, csv_rows, export_status>>

\* lines 85-86, one user; an exception that is no IOError leaves export_to_csv
\* and is caught by main's `except Exception`, which exits with status 1
ExportRow ==
    /\ export_pc = "rows"
    /\ Len(csv_rows) < Len(users)
    /\ LET r == process_user(users[Len(csv_rows) + 1])
       IN  IF r.tag = "raise"
           THEN export_pc' = "exited" /\ export_status' = IntVal(1) /\ UNCHANGED csv_rows
           ELSE csv_rows' = Append(csv_rows, r) /\ UNCHANGED <<export_pc, export_status>>
    /\ UNCHANGED exportRest

\* line 87 and main's line 102: every user was written
ExportDone ==
    /\ export_pc = "rows"
    /\ Len(csv_rows) = Len(users)
    /\ export_pc' = "done"
    /\ UNCHANGED <<exportRest, csv_rows, export_status>>

NextExport == ExportOpen \/ ExportRow \/ ExportDone

SpecExport == InitExport /\ [][NextExport]_vars

RolesNull(u) == "roles" \in DOMAIN u /\ u.roles = None
RolesAbsent(u) == "roles" \notin DOMAIN u \/ u.roles = None

\* C10 as stated: a user node whose roles object is absent (null, or without the
\* roles key) gets admin = false and raises no error, so that the export of a list
\* with such a user completes with a row for every user.
C10_AbsentRolesNeverRaise ==
    /\ \A i \in DOMAIN csv_rows : RolesAbsent(users[i]) => csv_rows[i].admin = FALSE
    /\ export_pc = "exited" => ~RolesAbsent(users[Len(csv_rows) + 1])
    /\ (export_pc \in {"done", "exited"} /\ \E i \in DOMAIN users : RolesAbsent(users[i]))
          => export_pc = "done" /\ Len(csv_rows) = Len(users)

\* C10 amended: a user node whose roles value is null (the key present) gets
\* admin = false and raises no error; a node without the roles key raises
\* KeyError, at which the export stops with exit status 1 after the rows of the
\* users before it; an export that completes has written a row for every user.
C10_NullRolesNeverRaise ==
    /\ \A i \in DOMAIN csv_rows : RolesNull(users[i]) => csv_rows[i].admin = FALSE
    /\ export_pc = "exited" =>
          /\ export_status = IntVal(1)
          /\ "roles" \notin DOMAIN users[Len(csv_rows) + 1]
          /\ \A i \in DOMAIN csv_rows : "roles" \in DOMAIN users[i]
    /\ (export_pc \in {"done", "exited"} /\ \A i \in DOMAIN users : "roles" \in DOMAIN users[i])
          => export_pc = "done" /\ Len(csv_rows) = Len(users)

\* a list of two users, one with null roles, was exported whole
C10_Witness ==
    /\ export_pc = "done"
    /\ Len(users) = 2 /\ Len(csv_rows) = 2
    /\ \E i \in DOMAIN users : RolesNull(users[i]) /\ csv_rows[i].admin = FALSE
    /\ \E i \in DOMAIN users : "roles" \in DOMAIN users[i] /\ csv_rows[i].admin = TRUE

====
